---- MODULE Spec2Model ----
(***************************************************************************)
(* Session / authentication lifecycle of the CookingSecrets mobile client. *)
(*                                                                         *)
(*   frontend/utils/api.ts            the axios instance and its request   *)
(*                                    and response interceptors            *)
(*   frontend/contexts/AuthContext.tsx  loadUser, login, signup, logout,   *)
(*                                    refreshUser and the user / loading   *)
(*                                    state of AuthProvider                *)
(*                                                                         *)
(* Every `await` of the source is a suspension point.  One action of the   *)
(* model is the completion of the awaited operation (the store access or   *)
(* the network exchange) together with the code that runs from there up to *)
(* the next await, so logical tasks interleave exactly at the awaits.      *)
(***************************************************************************)
EXTENDS Integers, Sequences, FiniteSets, TLC

(* ---------------------------- bounds ---------------------------------- *)

MaxUsers == 2      \* identities the backend knows
MaxOps == 2        \* calls of login / signup / logout / refreshUser / api, over all runs
MaxClock == 2      \* readings of Date.now() that differ
MaxText == 2       \* characters typed into the quantity field
MaxItems == 1      \* items the pantry holds
MaxTaps == 2       \* taps on the quantity controls
MaxQuery == 2      \* characters of the marketplace search text
MaxEdits == 2      \* changes of the marketplace search text

\* the calls, numbered in the order in which they start; any of them can be
\* pending at the same time
Procs == 1..MaxOps
Ids == 1..MaxUsers

(* ------------------------- values and JSON ---------------------------- *)

\* useState(null): the in-memory Session when nobody is logged in
Null == [null |-> TRUE]

\* the `user` object of the backend's responses; staff roles matter to the layouts
RoleOf(i) == IF i = 1 THEN "user" ELSE IF i = 2 THEN "admin" ELSE "chef"
Profile(i) == [id |-> i, role |-> RoleOf(i)]
Profiles == {Profile(i) : i \in Ids}

\* the `access_token` the backend issues for an identity (an opaque non-empty string)
TokenOf(i) == "jwt" \o ToString(i)
Tokens == {TokenOf(i) : i \in Ids}

\* JSON.stringify of a profile: its textual form
JSONstringify(u) == ToString(u)

\* a stored `user` text that JSON.parse rejects
Corrupt == "{corrupt"

\* JSON.parse: the object whose text this is; throws (ok = FALSE) for any other text
JSONparse(s) ==
  IF \E u \in Profiles : JSONstringify(u) = s
  THEN [ok |-> TRUE, value |-> CHOOSE u \in Profiles : JSONstringify(u) = s]
  ELSE [ok |-> FALSE, value |-> Null]

\* JavaScript truthiness of a string
Truthy(s) == s # ""

(* ------------------------- the device store --------------------------- *)

Keys == {"token", "user", "guest_session_id"}

\* AsyncStorage.getItem answers null for a key that is not stored
Present(s, k) == k \in DOMAIN s

\* `if (value)` on the answer of getItem: stored and not the empty string
Held(s, k) == Present(s, k) /\ Truthy(s[k])

SetItem(s, k, v) == [x \in (DOMAIN s) \cup {k} |-> IF x = k THEN v ELSE s[x]]
RemoveItem(s, k) == [x \in (DOMAIN s) \ {k} |-> s[x]]
MultiRemove(s, ks) == [x \in (DOMAIN s) \ ks |-> s[x]]

\* what the device may hold when the process starts
StoreValues(k) ==
  IF k = "token" THEN Tokens
  ELSE IF k = "user" THEN {JSONstringify(u) : u \in Profiles} \cup {Corrupt}
  ELSE {"guest-1"}
StoredStates ==
  {s \in UNION {[D -> UNION {StoreValues(k) : k \in Keys}] : D \in SUBSET Keys} :
     \A k \in DOMAIN s : s[k] \in StoreValues(k)}

(* --------------------- requests, responses, errors -------------------- *)

\* config.headers of an outgoing request: a function from header names
NoHeaders == [h \in {} |-> ""]
WithAuthorization(v) == [h \in {"Authorization"} |-> v]

\* the body of a failing response: a function from field names
NoData == [f \in {} |-> ""]
WithDetail(d) == [f \in {"detail"} |-> d]
Details == {"Invalid credentials"}

\* the error an awaited call rejects with.  Only a failing response gives the
\* error a `response`; a transport failure (network down, the 30 s timeout) and
\* a rejected AsyncStorage call give an error without one
Err(status, data) == [response |-> TRUE, from |-> "response", status |-> status, data |-> data]
NetworkErr == [response |-> FALSE, from |-> "network", status |-> 0, data |-> NoData]
StorageErr == [response |-> FALSE, from |-> "storage", status |-> 0, data |-> NoData]
ParseErr == [response |-> FALSE, from |-> "parse", status |-> 0, data |-> NoData]
NoErr == [response |-> FALSE, from |-> "none", status |-> 0, data |-> NoData]

\* failures the backend or the network can answer a request with: a 401 and
\* another failing status, each with a `detail` in its body or without one, and
\* a transport failure
Failures ==
  {Err(st, d) : st \in {401, 403}, d \in {NoData} \cup {WithDetail(x) : x \in Details}}
    \cup {NetworkErr}

\* error?.response?.data?.detail || fallback
ErrorMessage(err, fallback) ==
  IF err.response /\ "detail" \in DOMAIN err.data /\ Truthy(err.data["detail"])
  THEN err.data["detail"]
  ELSE fallback

\* the interceptor without its `if (token)`: `Bearer ${null}` when nothing is stored
AttachTokenUnchecked(s) ==
  WithAuthorization("Bearer " \o (IF Present(s, "token") THEN s["token"] ELSE "null"))

\* request interceptor: `if (token) config.headers.Authorization = ...`
AttachToken(s) ==
  IF Held(s, "token") THEN WithAuthorization("Bearer " \o s["token"]) ELSE NoHeaders

(* ------------------------------ state --------------------------------- *)

VARIABLES
  store,      \* AsyncStorage: the stored keys and their strings
  user,       \* AuthProvider's `user` state (the in-memory Session)
  loading,    \* AuthProvider's `loading` state
  load,       \* the loadUser call started by the mount effect: its position and
              \* whether the token it read was truthy
  tasks,      \* the pending calls of login / signup / logout / refreshUser / api:
              \* position, the endpoint and headers of the request until it is answered,
              \* the 401 error while the response interceptor handles it, and the
              \* access_token and user taken from a successful response
  outcome,    \* the settlement being delivered: how the call that settled in the
              \* last step ended, as the continuation of its caller receives it
  nOps,       \* calls started so far
  route,      \* the route the router displays
  now,        \* the clock of the device: what Date.now() answers
  sent,       \* the session_id of each /recipes/generate request sent, in order
  items,      \* PantryScreen's `items` state: the items displayed
  kitchen,    \* the pantry the backend holds for the user
  calls,      \* the pantry requests sent and not answered yet, in the order sent
  taps,       \* the quantity steps tapped so far: the quantity displayed before
              \* the first one, the deltas, and how many were acknowledged
  searchQuery,  \* MarketplaceScreen's `searchQuery` state
  timer,      \* the debounce timer that is armed, with the text of its closure
  fetches,    \* the list requests sent and not answered yet, in the order sent
  paidRecipes,  \* MarketplaceScreen's `paidRecipes` state: the list displayed
  mounted,    \* whether the marketplace screen is mounted
  failed,     \* whether a list request has failed
  edits,      \* changes of the search text so far
  past        \* what the calls of this run have done so far: the number of the
              \* last logout that cleared the store (0 when there is none) and
              \* the numbers of the login and signup calls that resolved

\* the state of the home screen
home == <<now, sent>>

\* the state of the pantry screen
pantry == <<items, kitchen, calls, taps>>

\* the state of the marketplace screen
market == <<searchQuery, timer, fetches, paidRecipes, mounted, failed, edits>>

\* the state of the screens, which no call of the context or of the api
\* pipeline touches
local == <<home, pantry, market>>

vars == <<store, user, loading, load, tasks, outcome, nOps, route, local, past>>

Idle ==
  [kind |-> "none", pc |-> "idle", staff |-> FALSE, method |-> "", endpoint |-> "",
   headers |-> NoHeaders, err |-> NoErr, tok |-> "", usr |-> Null]

\* a call that settled: the promise resolved, or rejected with Error(msg) (login,
\* signup) or with the error err itself (api)
Settled(task, result, msg, err) ==
  [kind |-> task.kind, staff |-> task.staff, result |-> result, msg |-> msg, err |-> err]

NoOutcome ==
  [kind |-> "none", staff |-> FALSE, result |-> "none", msg |-> "", err |-> NoErr]

Free(t) == tasks[t].pc = "idle"

Init ==
  /\ store \in StoredStates
  /\ user = Null
  /\ loading = TRUE
  /\ load = [pc |-> "get_token", tokenHeld |-> FALSE]
  /\ tasks = [t \in Procs |-> Idle]
  /\ outcome = NoOutcome
  /\ nOps = 0
  /\ route = "/"
  /\ now = 0
  /\ sent = <<>>
  /\ items = <<>>
  /\ kitchen = <<>>
  /\ calls = <<>>
  /\ taps = [origin |-> <<>>, deltas |-> <<>>, acked |-> 0]
  /\ searchQuery = <<>>
  /\ timer = <<>>
  /\ fetches = <<>>
  /\ paidRecipes = <<>>
  /\ mounted = FALSE
  /\ failed = FALSE
  /\ edits = 0
  /\ past = [logout |-> 0, entered |-> {}]

(* ----------------------- startup: loadUser ---------------------------- *)

\* how loadUser ended: it never rejects; err is the error its catch block logged
Loaded(err) ==
  [kind |-> "loadUser", staff |-> FALSE, result |-> "resolved", msg |-> "", err |-> err]

\* loadUser with setLoading(false) at the end of the try block instead of in finally
LoadUserGetTokenNoFinally ==
  /\ load.pc = "get_token"
  /\ \E ok \in BOOLEAN :
       IF ok
       THEN /\ load' = [pc |-> "get_user", tokenHeld |-> Held(store, "token")]
            /\ outcome' = NoOutcome
       ELSE /\ load' = [pc |-> "done", tokenHeld |-> FALSE]
            /\ outcome' = Loaded(StorageErr)
  /\ UNCHANGED <<past, store, user, loading, tasks, nOps, route, local>>

\* `const token = await AsyncStorage.getItem('token')`; a failing read goes to
\* the catch block and then to finally
LoadUserGetToken ==
  /\ load.pc = "get_token"
  /\ \E ok \in BOOLEAN :
       IF ok
       THEN /\ load' = [pc |-> "get_user", tokenHeld |-> Held(store, "token")]
            /\ outcome' = NoOutcome
            /\ UNCHANGED loading
       ELSE /\ load' = [pc |-> "done", tokenHeld |-> FALSE]
            /\ loading' = FALSE
            /\ outcome' = Loaded(StorageErr)
  /\ UNCHANGED <<past, store, user, tasks, nOps, route, local>>

\* loadUser that reads both keys and never calls setUser
LoadUserGetUserNoSession ==
  /\ load.pc = "get_user"
  /\ \E ok \in BOOLEAN : outcome' = Loaded(IF ok THEN NoErr ELSE StorageErr)
  /\ load' = [pc |-> "done", tokenHeld |-> FALSE]
  /\ loading' = FALSE
  /\ UNCHANGED <<past, store, user, tasks, nOps, route, local>>

\* `const userData = await AsyncStorage.getItem('user')`, then
\* `if (token && userData) setUser(JSON.parse(userData))`, the catch block for a
\* failing read or parse, and `setLoading(false)` of the finally block
LoadUserGetUser ==
  /\ load.pc = "get_user"
  /\ \E ok \in BOOLEAN :
       IF ~ok
       THEN /\ outcome' = Loaded(StorageErr)
            /\ UNCHANGED user
       ELSE IF load.tokenHeld /\ Held(store, "user")
       THEN IF JSONparse(store["user"]).ok
            THEN /\ user' = JSONparse(store["user"]).value
                 /\ outcome' = Loaded(NoErr)
            ELSE /\ outcome' = Loaded(ParseErr)
                 /\ UNCHANGED user
       ELSE /\ outcome' = Loaded(NoErr)
            /\ UNCHANGED user
  /\ load' = [pc |-> "done", tokenHeld |-> FALSE]
  /\ loading' = FALSE
  /\ UNCHANGED <<past, store, tasks, nOps, route, local>>

(* ------------------- the calls of the context ------------------------- *)

\* no screen is mounted while loading (RootLayoutNav renders nothing), so no
\* call of the context or of api starts before loadUser has finished; t is the
\* number of the call
CanStart(t) == t = nOps + 1 /\ Free(t) /\ ~loading

\* a call of api.get / api.post: the request interceptor starts and awaits
\* getItem('token'); staff is the isStaff argument of login
Call(t, kind, staff, method, endpoint) ==
  /\ CanStart(t)
  /\ tasks' = [tasks EXCEPT ![t] =
       [Idle EXCEPT !.kind = kind, !.pc = "hook_get_token", !.staff = staff,
                    !.method = method, !.endpoint = endpoint]]
  /\ outcome' = NoOutcome
  /\ nOps' = nOps + 1
  /\ UNCHANGED <<past, store, user, loading, load, route, local>>

\* login with the two endpoints swapped
LoginSwapped(t, isStaff) ==
  Call(t, "login", isStaff, "POST", IF isStaff THEN "/auth/login" ELSE "/auth/staff-login")

\* login(email, password, isStaff): api.post(isStaff ? '/auth/staff-login' : '/auth/login')
Login(t, isStaff) ==
  Call(t, "login", isStaff, "POST", IF isStaff THEN "/auth/staff-login" ELSE "/auth/login")

\* signup(email, password, name, role): api.post('/auth/signup')
Signup(t) == Call(t, "signup", FALSE, "POST", "/auth/signup")

\* refreshUser sending its request with api.post
RefreshUserPost(t) == Call(t, "refresh", FALSE, "POST", "/auth/me")

\* refreshUser(): api.get('/auth/me')
RefreshUser(t) == Call(t, "refresh", FALSE, "GET", "/auth/me")

\* any other request a screen sends through api
Request(t) == Call(t, "request", FALSE, "POST", "/recipes")

\* logout(): awaits AsyncStorage.multiRemove
Logout(t) ==
  /\ CanStart(t)
  /\ tasks' = [tasks EXCEPT ![t] = [Idle EXCEPT !.kind = "logout", !.pc = "multi_remove"]]
  /\ outcome' = NoOutcome
  /\ nOps' = nOps + 1
  /\ UNCHANGED <<past, store, user, loading, load, route, local>>

\* the call in slot t goes on to its next await
Continue(t, task) ==
  /\ tasks' = [tasks EXCEPT ![t] = task]
  /\ outcome' = NoOutcome
  /\ UNCHANGED past

\* what has been done once call t has settled with outcome o
After(t, o) ==
  IF o.kind \in {"login", "signup"} /\ o.result = "resolved"
  THEN [past EXCEPT !.entered = @ \cup {t}]
  ELSE IF o.kind = "logout" /\ o.err = NoErr THEN [past EXCEPT !.logout = t]
  ELSE past

\* the call in slot t settles with outcome o
Settle(t, o) ==
  /\ tasks' = [tasks EXCEPT ![t] = Idle]
  /\ outcome' = o
  /\ past' = After(t, o)

\* the catch block of the caller, entered with the error the awaited call
\* rejected with: login and signup throw Error(detail || fallback), refreshUser
\* and logout log it and return, a screen's api call rejects with the error itself
Caught(task, err) ==
  IF task.kind = "login" THEN Settled(task, "rejected", ErrorMessage(err, "Login failed"), err)
  ELSE IF task.kind = "signup" THEN Settled(task, "rejected", ErrorMessage(err, "Signup failed"), err)
  ELSE IF task.kind \in {"refresh", "logout"} THEN Settled(task, "resolved", "", err)
  ELSE Settled(task, "rejected", "", err)

(* ------------------------ the api pipeline ---------------------------- *)

\* request interceptor after getItem('token'): the header is set from the value
\* just read and the request goes to the network; a failing read rejects the call
RequestHook(t) ==
  /\ tasks[t].pc = "hook_get_token"
  /\ \E ok \in BOOLEAN :
       IF ok
       THEN Continue(t, [tasks[t] EXCEPT !.pc = "in_flight", !.headers = AttachToken(store)])
       ELSE Settle(t, Caught(tasks[t], StorageErr))
  /\ UNCHANGED <<store, user, loading, load, nOps, route, local>>

\* the call once its request has been answered: the request is over
Answered(task) ==
  [task EXCEPT !.method = "", !.endpoint = "", !.headers = NoHeaders]

\* the call whose request was answered 401: the error the response interceptor
\* handles carries the request as it was sent (error.config), its headers included
Refused(task) ==
  [task EXCEPT !.method = "", !.endpoint = ""]

\* the accounts an endpoint of the backend answers 2xx for: /auth/login refuses
\* moderator and admin with 403, /auth/staff-login refuses every other role, the
\* signup screen creates a user or a chef, and /auth/me answers with the
\* account whose token the request carries
Accounts(task) ==
  IF task.endpoint = "/auth/staff-login" THEN {i \in Ids : RoleOf(i) \in {"admin", "moderator"}}
  ELSE IF task.endpoint \in {"/auth/login", "/auth/signup"}
  THEN {i \in Ids : RoleOf(i) \notin {"admin", "moderator"}}
  ELSE IF task.endpoint = "/auth/me"
  THEN {i \in Ids : task.headers = WithAuthorization("Bearer " \o TokenOf(i))}
  ELSE Ids

\* a 2xx response: the response interceptor passes it through and the caller
\* runs up to its next await: login and signup call setItem('token', access_token),
\* refreshUser calls setItem('user', ...), a screen's call resolves
RespondSuccess(t) ==
  /\ tasks[t].pc = "in_flight"
  /\ \E i \in Accounts(tasks[t]) :
       IF tasks[t].kind \in {"login", "signup"}
       THEN Continue(t, [Answered(tasks[t]) EXCEPT !.pc = "set_token", !.tok = TokenOf(i), !.usr = Profile(i)])
       ELSE IF tasks[t].kind = "refresh"
       THEN Continue(t, [Answered(tasks[t]) EXCEPT !.pc = "set_user", !.usr = Profile(i)])
       ELSE Settle(t, Settled(tasks[t], "resolved", "", NoErr))
  /\ UNCHANGED <<store, user, loading, load, nOps, route, local>>

\* the response interceptor clearing the store on every failing response
RespondFailureAnyStatus(t) ==
  /\ tasks[t].pc = "in_flight"
  /\ \E err \in Failures :
       IF err.response
       THEN Continue(t, [Refused(tasks[t]) EXCEPT !.pc = "hook_rm_token", !.err = err])
       ELSE Settle(t, Caught(tasks[t], err))
  /\ UNCHANGED <<store, user, loading, load, nOps, route, local>>

\* a failure: the response interceptor awaits removeItem('token') on a 401 and
\* rejects with the error at once otherwise
RespondFailure(t) ==
  /\ tasks[t].pc = "in_flight"
  /\ \E err \in Failures :
       IF err.response /\ err.status = 401
       THEN Continue(t, [Refused(tasks[t]) EXCEPT !.pc = "hook_rm_token", !.err = err])
       ELSE Settle(t, Caught(tasks[t], err))
  /\ UNCHANGED <<store, user, loading, load, nOps, route, local>>

\* `await AsyncStorage.removeItem('token')` of the 401 branch, then
\* removeItem('user') is awaited; a failing removal rejects with the storage error
HookRemoveToken(t) ==
  /\ tasks[t].pc = "hook_rm_token"
  /\ \E ok \in BOOLEAN :
       IF ok
       THEN /\ store' = RemoveItem(store, "token")
            /\ Continue(t, [tasks[t] EXCEPT !.pc = "hook_rm_user"])
       ELSE /\ Settle(t, Caught(tasks[t], StorageErr))
            /\ UNCHANGED store
  /\ UNCHANGED <<user, loading, load, nOps, route, local>>

\* the response interceptor also resetting the in-memory Session once the
\* store is cleared
HookRemoveUserClearsSession(t) ==
  /\ tasks[t].pc = "hook_rm_user"
  /\ \E ok \in BOOLEAN :
       IF ok
       THEN /\ store' = RemoveItem(store, "user")
            /\ user' = Null
            /\ Settle(t, Caught(tasks[t], tasks[t].err))
       ELSE /\ Settle(t, Caught(tasks[t], StorageErr))
            /\ UNCHANGED <<store, user>>
  /\ UNCHANGED <<loading, load, nOps, route, local>>

\* `await AsyncStorage.removeItem('user')`, then `return Promise.reject(error)`
HookRemoveUser(t) ==
  /\ tasks[t].pc = "hook_rm_user"
  /\ \E ok \in BOOLEAN :
       IF ok
       THEN /\ store' = RemoveItem(store, "user")
            /\ Settle(t, Caught(tasks[t], tasks[t].err))
       ELSE /\ Settle(t, Caught(tasks[t], StorageErr))
            /\ UNCHANGED store
  /\ UNCHANGED <<user, loading, load, nOps, route, local>>

(* ------------------ login / signup / refresh / logout ----------------- *)

\* login with setUser(userData) moved up, before the profile is persisted
PersistTokenEager(t) ==
  /\ tasks[t].pc = "set_token"
  /\ \E ok \in BOOLEAN :
       IF ok
       THEN /\ store' = SetItem(store, "token", tasks[t].tok)
            /\ user' = tasks[t].usr
            /\ Continue(t, [tasks[t] EXCEPT !.pc = "set_user"])
       ELSE /\ Settle(t, Caught(tasks[t], StorageErr))
            /\ UNCHANGED <<store, user>>
  /\ UNCHANGED <<loading, load, nOps, route, local>>

\* login that keeps a token that is already stored
PersistTokenIfAbsent(t) ==
  /\ tasks[t].pc = "set_token"
  /\ \E ok \in BOOLEAN :
       IF ok
       THEN /\ store' = IF Present(store, "token") THEN store
                        ELSE SetItem(store, "token", tasks[t].tok)
            /\ Continue(t, [tasks[t] EXCEPT !.pc = "set_user"])
       ELSE /\ Settle(t, Caught(tasks[t], StorageErr))
            /\ UNCHANGED store
  /\ UNCHANGED <<user, loading, load, nOps, route, local>>

\* `await AsyncStorage.setItem('token', access_token)` of login and signup
PersistToken(t) ==
  /\ tasks[t].pc = "set_token"
  /\ \E ok \in BOOLEAN :
       IF ok
       THEN /\ store' = SetItem(store, "token", tasks[t].tok)
            /\ Continue(t, [tasks[t] EXCEPT !.pc = "set_user"])
       ELSE /\ Settle(t, Caught(tasks[t], StorageErr))
            /\ UNCHANGED store
  /\ UNCHANGED <<user, loading, load, nOps, route, local>>

\* the persist step without its setUser(userData)
PersistUserNoSession(t) ==
  /\ tasks[t].pc = "set_user"
  /\ \E ok \in BOOLEAN :
       IF ok
       THEN /\ store' = SetItem(store, "user", JSONstringify(tasks[t].usr))
            /\ Settle(t, Settled(tasks[t], "resolved", "", NoErr))
       ELSE /\ Settle(t, Caught(tasks[t], StorageErr))
            /\ UNCHANGED store
  /\ UNCHANGED <<user, loading, load, nOps, route, local>>

\* the persist step with setUser(userData) called before the awaited write, so
\* that a failing write leaves the new Session in place
PersistUserOptimistic(t) ==
  /\ tasks[t].pc = "set_user"
  /\ user' = tasks[t].usr
  /\ \E ok \in BOOLEAN :
       IF ok
       THEN /\ store' = SetItem(store, "user", JSONstringify(tasks[t].usr))
            /\ Settle(t, Settled(tasks[t], "resolved", "", NoErr))
       ELSE /\ Settle(t, Caught(tasks[t], StorageErr))
            /\ UNCHANGED store
  /\ UNCHANGED <<loading, load, nOps, route, local>>

\* `await AsyncStorage.setItem('user', JSON.stringify(userData)); setUser(userData)`
\* of login, signup and refreshUser
PersistUser(t) ==
  /\ tasks[t].pc = "set_user"
  /\ \E ok \in BOOLEAN :
       IF ok
       THEN /\ store' = SetItem(store, "user", JSONstringify(tasks[t].usr))
            /\ user' = tasks[t].usr
            /\ Settle(t, Settled(tasks[t], "resolved", "", NoErr))
       ELSE /\ Settle(t, Caught(tasks[t], StorageErr))
            /\ UNCHANGED <<store, user>>
  /\ UNCHANGED <<loading, load, nOps, route, local>>

\* logout that removes the two credential keys only
LogoutRemoveCredentialsOnly(t) ==
  /\ tasks[t].pc = "multi_remove"
  /\ \E ok \in BOOLEAN :
       IF ok
       THEN /\ store' = MultiRemove(store, {"token", "user"})
            /\ user' = Null
            /\ Settle(t, Settled(tasks[t], "resolved", "", NoErr))
       ELSE /\ user' = Null
            /\ Settle(t, Caught(tasks[t], StorageErr))
            /\ UNCHANGED store
  /\ UNCHANGED <<loading, load, nOps, route, local>>

\* logout that removes the cached profile and leaves the token
LogoutRemoveProfileOnly(t) ==
  /\ tasks[t].pc = "multi_remove"
  /\ \E ok \in BOOLEAN :
       IF ok
       THEN /\ store' = MultiRemove(store, {"user", "guest_session_id"})
            /\ user' = Null
            /\ Settle(t, Settled(tasks[t], "resolved", "", NoErr))
       ELSE /\ user' = Null
            /\ Settle(t, Caught(tasks[t], StorageErr))
            /\ UNCHANGED store
  /\ UNCHANGED <<loading, load, nOps, route, local>>

\* logout whose catch block only logs the error
LogoutRemoveNoFailSafe(t) ==
  /\ tasks[t].pc = "multi_remove"
  /\ \E ok \in BOOLEAN :
       IF ok
       THEN /\ store' = MultiRemove(store, {"token", "user", "guest_session_id"})
            /\ user' = Null
            /\ Settle(t, Settled(tasks[t], "resolved", "", NoErr))
       ELSE /\ Settle(t, Caught(tasks[t], StorageErr))
            /\ UNCHANGED <<store, user>>
  /\ UNCHANGED <<loading, load, nOps, route, local>>

\* `await AsyncStorage.multiRemove([...])`, then setUser(null): in the try block
\* when the removal succeeded, in the catch block when it failed
LogoutRemove(t) ==
  /\ tasks[t].pc = "multi_remove"
  /\ \E ok \in BOOLEAN :
       IF ok
       THEN /\ store' = MultiRemove(store, {"token", "user", "guest_session_id"})
            /\ user' = Null
            /\ Settle(t, Settled(tasks[t], "resolved", "", NoErr))
       ELSE /\ user' = Null
            /\ Settle(t, Caught(tasks[t], StorageErr))
            /\ UNCHANGED store
  /\ UNCHANGED <<loading, load, nOps, route, local>>

(* ----------------------------- restart -------------------------------- *)

\* the process is killed and started again: the store survives, the React
\* state and every pending call are gone, the router shows the index route,
\* the mount effect calls loadUser
Restart ==
  /\ user' = Null
  /\ loading' = TRUE
  /\ load' = [pc |-> "get_token", tokenHeld |-> FALSE]
  /\ tasks' = [t \in Procs |-> Idle]
  /\ outcome' = NoOutcome
  /\ route' = "/"
  /\ past' = [logout |-> 0, entered |-> {}]
  /\ UNCHANGED <<store, nOps, local>>

(* ---------------------------- navigation ------------------------------ *)

\* the routes of the Stack of RootLayoutNav that the layouts guard
Landing == "/"
AuthRoutes == {"/(auth)/login", "/(auth)/signup", "/(auth)/staff-login"}
TabRoutes == {"/(tabs)/home"}
StaffRoutes == {"/(staff)/moderation"}
Routes == {Landing} \cup AuthRoutes \cup TabRoutes \cup StaffRoutes

\* what a layout returns: nothing, a <Redirect href>, or its screens
Nothing == [show |-> "nothing", href |-> ""]
Redirect(href) == [show |-> "redirect", href |-> href]
Screens == [show |-> "screens", href |-> ""]

StaffRoles == {"admin", "moderator"}

\* where an authenticated user belongs: the staff stack for admin and
\* moderator, the tabs for every other role
HomeOf(u) == IF u.role \in StaffRoles THEN "/(staff)/moderation" ELSE "/(tabs)/home"

\* TabLayout: `if (loading) return null; if (!user) return <Redirect href="/" />`
TabLayout(u, l) ==
  IF l THEN Nothing
  ELSE IF u = Null THEN Redirect(Landing)
  ELSE Screens

\* StaffLayout letting every authenticated role in
StaffLayoutAnyRole(u, l) ==
  IF l THEN Nothing
  ELSE IF u = Null THEN Redirect(Landing)
  ELSE Screens

\* StaffLayout: null Session goes to the landing route, a role that is not
\* staff goes to the tabs
StaffLayout(u, l) ==
  IF l THEN Nothing
  ELSE IF u = Null THEN Redirect(Landing)
  ELSE IF u.role \notin StaffRoles THEN Redirect("/(tabs)/home")
  ELSE Screens

\* AuthLayout sending every authenticated user to the tabs
AuthLayoutToTabs(u, l) ==
  IF l THEN Nothing
  ELSE IF u # Null THEN Redirect("/(tabs)/home")
  ELSE Screens

\* AuthLayout: an authenticated user is kept out of the auth screens
AuthLayout(u, l) ==
  IF l THEN Nothing
  ELSE IF u # Null THEN Redirect(HomeOf(u))
  ELSE Screens

\* Landing: the effect `if (!loading && user) router.replace(...)`
LandingScreen(u, l) ==
  IF ~l /\ u # Null THEN Redirect(HomeOf(u)) ELSE Screens

\* what is rendered for route r: RootLayoutNav renders nothing while loading,
\* then the layout of the route's group decides
Rendered(r, u, l) ==
  IF l THEN Nothing
  ELSE IF r \in TabRoutes THEN TabLayout(u, l)
  ELSE IF r \in StaffRoutes THEN StaffLayout(u, l)
  ELSE IF r \in AuthRoutes THEN AuthLayout(u, l)
  ELSE LandingScreen(u, l)

\* the router moves to route r and nothing else changes
Show(r) ==
  /\ route' = r
  /\ outcome' = NoOutcome
  /\ UNCHANGED <<past, store, user, loading, load, tasks, nOps, local>>

\* the user opens a route from outside the screens: a link to the app, the
\* address bar on web, the back gesture
Open(r) == r # route /\ Show(r)

\* the Login, Sign Up and Staff Login buttons of the landing screen: router.push
LandingPress(r) == route = Landing /\ ~loading /\ r \in AuthRoutes /\ Show(r)

\* the <Redirect> a layout returned, or the router.replace of the landing
\* effect, takes place
FollowRedirect(group) ==
  /\ route \in group
  /\ Rendered(route, user, loading).show = "redirect"
  /\ route' = Rendered(route, user, loading).href
  /\ UNCHANGED <<past, store, user, loading, load, tasks, outcome, nOps, local>>

TabLayoutRedirect == FollowRedirect(TabRoutes)
StaffLayoutRedirect == FollowRedirect(StaffRoutes)
AuthLayoutRedirect == FollowRedirect(AuthRoutes)
LandingRedirect == FollowRedirect({Landing})

\* the caller of a context call goes on once the call has resolved: router.replace
Replace(kind, staff, r) ==
  /\ outcome.kind = kind
  /\ outcome.staff = staff
  /\ outcome.result = "resolved"
  /\ Show(r)

\* Login.handleLogin: `await login(email, password, false); router.replace('/(tabs)/home')`
LoginReplace == Replace("login", FALSE, "/(tabs)/home")

\* StaffLogin.handleLogin: `await login(email, password, true);
\* router.replace('/(staff)/moderation')`
StaffLoginReplace == Replace("login", TRUE, "/(staff)/moderation")

\* Signup.handleSignup: `await signup(...); router.replace('/(tabs)/home')`
SignupReplace == Replace("signup", FALSE, "/(tabs)/home")

\* the logout buttons: `await logout(); router.replace('/')`
LogoutReplace == Replace("logout", FALSE, Landing)

(* --------------------------- home screen ------------------------------ *)

\* 'guest-' + Date.now()
GuestId(n) == "guest-" \o ToString(n)
GuestIds == {GuestId(n) : n \in 0..MaxClock}

\* `user?.id || 'guest-' + Date.now()` of handleGenerateRecipe
SessionId(u, n) == IF u # Null THEN ToString(u.id) ELSE GuestId(n)

\* time passes on the device
Tick ==
  /\ now < MaxClock
  /\ now' = now + 1
  /\ outcome' = NoOutcome
  /\ UNCHANGED <<past, store, user, loading, load, tasks, nOps, route, sent, pantry, market>>

\* handleGenerateRecipe with ingredients typed in: api.post('/recipes/generate',
\* {ingredients, session_id}); the store is neither read nor written for the
\* session_id
HandleGenerateRecipe(t) ==
  /\ CanStart(t)
  /\ route = "/(tabs)/home"
  /\ tasks' = [tasks EXCEPT ![t] =
       [Idle EXCEPT !.kind = "request", !.pc = "hook_get_token",
                    !.method = "POST", !.endpoint = "/recipes/generate"]]
  /\ sent' = Append(sent, SessionId(user, now))
  /\ outcome' = NoOutcome
  /\ nOps' = nOps + 1
  /\ UNCHANGED <<past, store, user, loading, load, route, now, pantry, market>>

(* -------------------------- pantry screen ----------------------------- *)

\* numbers of JavaScript in units of 1 / Scale, NaN, and the null that
\* JSON.stringify writes for NaN
Scale == 10 ^ MaxText
Num(v) == [kind |-> "number", v |-> v]
NaN == [kind |-> "NaN", v |-> 0]
JsonNull == [kind |-> "null", v |-> 0]

\* what can be typed or pasted into the quantity field
Chars == {"0", "1", "5", "-", "."}
Texts == UNION {[1..n -> Chars] : n \in 0..MaxText}

IsDigit(c) == c \in {"0", "1", "5"}
DigitValue(c) == IF c = "0" THEN 0 ELSE IF c = "1" THEN 1 ELSE 5

\* the digits a text starts with
RECURSIVE LeadingDigits(_)
LeadingDigits(s) ==
  IF s = <<>> \/ ~IsDigit(Head(s)) THEN <<>> ELSE <<Head(s)>> \o LeadingDigits(Tail(s))

\* the number a sequence of digits denotes
RECURSIVE Whole(_)
Whole(ds) ==
  IF ds = <<>> THEN 0 ELSE 10 * Whole(SubSeq(ds, 1, Len(ds) - 1)) + DigitValue(ds[Len(ds)])

\* parseFloat: an optional sign, digits, an optional point and digits; what
\* follows the longest such prefix is ignored; NaN when there is no digit
ParseFloat(s) ==
  LET neg == s # <<>> /\ Head(s) = "-"
      body == IF neg THEN Tail(s) ELSE s
      int == LeadingDigits(body)
      rest == SubSeq(body, Len(int) + 1, Len(body))
      frac == IF rest # <<>> /\ Head(rest) = "." THEN LeadingDigits(Tail(rest)) ELSE <<>>
      mag == Whole(int) * Scale + Whole(frac) * 10 ^ (MaxText - Len(frac))
  IN IF int = <<>> /\ frac = <<>> THEN NaN ELSE Num(IF neg THEN 0 - mag ELSE mag)

\* Math.floor: null counts as 0
Floor(q) ==
  IF q.kind = "NaN" THEN NaN
  ELSE IF q.kind = "null" THEN Num(0)
  ELSE Num((q.v \div Scale) * Scale)

\* a !== b on numbers: NaN differs from everything, itself included
StrictlyDiffers(a, b) == a.kind = "NaN" \/ b.kind = "NaN" \/ a # b

\* a + d for an integer d: null counts as 0
Plus(q, d) ==
  IF q.kind = "NaN" THEN NaN
  ELSE IF q.kind = "null" THEN Num(d * Scale)
  ELSE Num(q.v + d * Scale)

\* q < 0
Negative(q) == q.kind = "number" /\ q.v < 0

\* JSON.stringify of a request body, and the backend storing and returning it
Serialize(q) == IF q.kind = "NaN" THEN JsonNull ELSE q

QuantityTypes == {"kg", "number", "none"}

\* the pantry screen is on display
PantryShown == ~loading

Get == [op |-> "GET", id |-> 0, quantity_type |-> "none", quantity |-> Num(0)]
Pending(op) == {i \in 1..Len(calls) : calls[i].op = op}
Without(s, i) == SubSeq(s, 1, i - 1) \o SubSeq(s, i + 1, Len(s))

\* the mount effect: loadItems() sends GET /pantry
LoadItems ==
  /\ PantryShown
  /\ items = <<>> /\ kitchen = <<>> /\ calls = <<>>
  /\ calls' = Append(calls, Get)
  /\ UNCHANGED <<past, store, user, loading, load, tasks, outcome, nOps, route, home, market,
                 items, kitchen, taps>>

\* handleAddItem with a name or an image given: the quantity is parsed, a
\* quantity that is not an integer is refused for type 'number', and
\* POST /pantry is sent
HandleAddItem(type, text) ==
  LET quantity == ParseFloat(text) IN
  /\ PantryShown
  /\ Len(kitchen) + Cardinality(Pending("POST")) < MaxItems
  /\ ~(type = "number" /\ StrictlyDiffers(quantity, Floor(quantity)))
  /\ calls' = Append(calls, [op |-> "POST", id |-> 0, quantity_type |-> type,
                             quantity |-> IF type = "none" THEN Num(0) ELSE quantity])
  /\ UNCHANGED <<past, store, user, loading, load, tasks, outcome, nOps, route, home, market,
                 items, kitchen, taps>>

\* the quantity handleUpdateQuantity sends: the sum, 0 when it is negative,
\* rounded down for type 'number'
NewQuantity(currentQuantity, quantityType, delta) ==
  LET sum == Plus(currentQuantity, delta)
      clamped == IF Negative(sum) THEN Num(0) ELSE sum
  IN IF quantityType = "number" THEN Floor(clamped) ELSE clamped

\* a tap on the minus or plus control of the i-th item displayed:
\* handleUpdateQuantity(item.id, item.quantity, item.quantity_type, delta) with
\* the item as it is displayed; nothing is sent for type 'none'
HandleUpdateQuantity(i, delta) ==
  /\ PantryShown
  /\ i \in 1..Len(items)
  /\ items[i].quantity_type # "none"
  /\ Len(taps.deltas) < MaxTaps
  /\ calls' = Append(calls, [op |-> "PUT", id |-> items[i].id,
                             quantity_type |-> items[i].quantity_type,
                             quantity |-> NewQuantity(items[i].quantity, items[i].quantity_type, delta)])
  /\ taps' = [taps EXCEPT !.origin = IF taps.deltas = <<>> THEN <<items[i].quantity>> ELSE @,
                          !.deltas = Append(@, delta)]
  /\ UNCHANGED <<past, store, user, loading, load, tasks, outcome, nOps, route, home, market,
                 items, kitchen>>

\* the list with the quantity of item id replaced
WithQuantity(list, id, q) ==
  [k \in 1..Len(list) |-> IF list[k].id = id THEN [list[k] EXCEPT !.quantity = q] ELSE list[k]]

\* POST /pantry is answered: the backend stores the item and handleAddItem
\* calls loadItems(), or the request fails and an alert is shown
AnswerPost(i) ==
  /\ i \in Pending("POST")
  /\ \E ok \in BOOLEAN :
       IF ok
       THEN /\ kitchen' = Append(kitchen, [id |-> Len(kitchen) + 1,
                                           quantity_type |-> calls[i].quantity_type,
                                           quantity |-> Serialize(calls[i].quantity)])
            /\ calls' = Append(Without(calls, i), Get)
       ELSE /\ calls' = Without(calls, i)
            /\ UNCHANGED kitchen
  /\ UNCHANGED <<past, store, user, loading, load, tasks, outcome, nOps, route, home, market, items, taps>>

\* GET /pantry is answered: setItems(response.data), or the failure is logged
AnswerGet(i) ==
  /\ i \in Pending("GET")
  /\ calls' = Without(calls, i)
  /\ \E ok \in BOOLEAN : items' = IF ok THEN kitchen ELSE items
  /\ UNCHANGED <<past, store, user, loading, load, tasks, outcome, nOps, route, home, market, kitchen, taps>>

\* PUT /pantry/{id} is answered: the backend stores the quantity and the
\* item displayed takes the quantity that was sent, or an alert is shown
AnswerPut(i) ==
  /\ i \in Pending("PUT")
  /\ calls' = Without(calls, i)
  /\ \E ok \in BOOLEAN :
       IF ok
       THEN /\ kitchen' = WithQuantity(kitchen, calls[i].id, Serialize(calls[i].quantity))
            /\ items' = WithQuantity(items, calls[i].id, calls[i].quantity)
            /\ taps' = [taps EXCEPT !.acked = @ + 1]
       ELSE UNCHANGED <<kitchen, items, taps>>
  /\ UNCHANGED <<past, store, user, loading, load, tasks, outcome, nOps, route, home, market>>

(* ------------------------ marketplace screen -------------------------- *)

\* the search texts
Queries == UNION {[1..n -> {" ", "a"}] : n \in 0..MaxQuery}

\* String.prototype.trim: the text without its leading and trailing blanks
RECURSIVE TrimStart(_)
TrimStart(q) == IF q # <<>> /\ Head(q) = " " THEN TrimStart(Tail(q)) ELSE q
RECURSIVE TrimEnd(_)
TrimEnd(q) ==
  IF q # <<>> /\ q[Len(q)] = " " THEN TrimEnd(SubSeq(q, 1, Len(q) - 1)) ELSE q
Trim(q) == TrimEnd(TrimStart(q))

\* the list request for a search text: loadPaidRecipes gets /recipes?skip=0&limit=50,
\* handleSearch adds &search=<query> unless the query is blank
Unfiltered == [path |-> "/recipes", search |-> <<>>]
Search(q) == [path |-> "/recipes", search |-> <<q>>]
ListRequest(q) == IF Trim(q) = <<>> THEN Unfiltered ELSE Search(q)

\* the list a 2xx response to a list request leaves on display: the paid
\* recipes among those the backend finds for the request
PaidOf(request) == <<request.search>>

\* the screen mounts: the first effect calls loadPaidRecipes(), the second one
\* arms the debounce timer for the empty text
MarketMount ==
  /\ ~loading
  /\ ~mounted
  /\ mounted' = TRUE
  /\ fetches' = Append(fetches, Unfiltered)
  /\ timer' = <<searchQuery>>
  /\ UNCHANGED <<past, store, user, loading, load, tasks, outcome, nOps, route, home, pantry,
                 searchQuery, paidRecipes, failed, edits>>

\* the search text changes: the cleanup of the effect clears the timer and the
\* effect arms a new one for the new text
ChangeText(q) ==
  /\ mounted
  /\ q # searchQuery
  /\ edits < MaxEdits
  /\ searchQuery' = q
  /\ timer' = <<q>>
  /\ edits' = edits + 1
  /\ UNCHANGED <<past, store, user, loading, load, tasks, outcome, nOps, route, home, pantry,
                 fetches, paidRecipes, mounted, failed>>

\* 300 ms have passed since the timer was armed: handleSearch(searchQuery) or
\* loadPaidRecipes() sends its request
TimerFires ==
  /\ timer # <<>>
  /\ fetches' = Append(fetches, ListRequest(timer[1]))
  /\ timer' = <<>>
  /\ UNCHANGED <<past, store, user, loading, load, tasks, outcome, nOps, route, home, pantry,
                 searchQuery, paidRecipes, mounted, failed, edits>>

\* a list request is answered: setPaidRecipes(paid), or the failure is logged
AnswerList(i) ==
  /\ i \in 1..Len(fetches)
  /\ fetches' = SubSeq(fetches, 1, i - 1) \o SubSeq(fetches, i + 1, Len(fetches))
  /\ \E ok \in BOOLEAN :
       IF ok
       THEN paidRecipes' = PaidOf(fetches[i]) /\ UNCHANGED failed
       ELSE failed' = TRUE /\ UNCHANGED paidRecipes
  /\ UNCHANGED <<past, store, user, loading, load, tasks, outcome, nOps, route, home, pantry,
                 searchQuery, timer, mounted, edits>>

(* -------------------------- specification ----------------------------- *)

Next ==
  \/ LoadUserGetToken
  \/ LoadUserGetUser
  \/ \E t \in Procs, isStaff \in BOOLEAN : Login(t, isStaff)
  \/ \E t \in Procs : Signup(t)
  \/ \E t \in Procs : RefreshUser(t)
  \/ \E t \in Procs : Request(t)
  \/ \E t \in Procs : Logout(t)
  \/ \E t \in Procs : RequestHook(t)
  \/ \E t \in Procs : RespondSuccess(t)
  \/ \E t \in Procs : RespondFailure(t)
  \/ \E t \in Procs : HookRemoveToken(t)
  \/ \E t \in Procs : HookRemoveUser(t)
  \/ \E t \in Procs : PersistToken(t)
  \/ \E t \in Procs : PersistUser(t)
  \/ \E t \in Procs : LogoutRemove(t)
  \/ Restart

Spec == Init /\ [][Next]_vars

\* one call at a time: a call starts only when no other call is pending
Quiet == \A t \in Procs : Free(t)

NextSeq ==
  \/ LoadUserGetToken
  \/ LoadUserGetUser
  \/ \E t \in Procs, isStaff \in BOOLEAN : Quiet /\ Login(t, isStaff)
  \/ \E t \in Procs : Quiet /\ Signup(t)
  \/ \E t \in Procs : Quiet /\ RefreshUser(t)
  \/ \E t \in Procs : Quiet /\ Request(t)
  \/ \E t \in Procs : Quiet /\ Logout(t)
  \/ \E t \in Procs : RequestHook(t)
  \/ \E t \in Procs : RespondSuccess(t)
  \/ \E t \in Procs : RespondFailure(t)
  \/ \E t \in Procs : HookRemoveToken(t)
  \/ \E t \in Procs : HookRemoveUser(t)
  \/ \E t \in Procs : PersistToken(t)
  \/ \E t \in Procs : PersistUser(t)
  \/ \E t \in Procs : LogoutRemove(t)
  \/ Restart

SpecSeq == Init /\ [][NextSeq]_vars

\* the part of the lifecycle that needs no network: startup and logout.  Each
\* store access that loadUser awaits completes (with a value or with an error)
\* unless the process is killed first, and the process is not killed during
\* every startup for ever
NextOffline ==
  \/ LoadUserGetToken
  \/ LoadUserGetUser
  \/ \E t \in Procs : Logout(t)
  \/ \E t \in Procs : LogoutRemove(t)
  \/ Restart

SpecOffline ==
  Init /\ [][NextOffline]_vars /\ WF_vars(LoadUserGetToken) /\ SF_vars(LoadUserGetUser)

\* the session with the router: the calls one at a time, and the navigation
\* of the user and of the layouts at any moment
NextNav ==
  \/ NextSeq
  \/ \E r \in Routes : Open(r)
  \/ \E r \in AuthRoutes : LandingPress(r)
  \/ TabLayoutRedirect
  \/ StaffLayoutRedirect
  \/ AuthLayoutRedirect
  \/ LandingRedirect
  \/ LoginReplace
  \/ StaffLoginReplace
  \/ SignupReplace
  \/ LogoutReplace

SpecNav == Init /\ [][NextNav]_vars

\* the home screen: recipe generation requests through the api pipeline while
\* time passes
NextHome ==
  \/ LoadUserGetToken
  \/ LoadUserGetUser
  \/ \E r \in TabRoutes : Open(r)
  \/ Tick
  \/ \E t \in Procs : HandleGenerateRecipe(t)
  \/ \E t \in Procs : RequestHook(t)
  \/ \E t \in Procs : RespondSuccess(t)
  \/ \E t \in Procs : RespondFailure(t)
  \/ \E t \in Procs : HookRemoveToken(t)
  \/ \E t \in Procs : HookRemoveUser(t)

SpecHome == Init /\ [][NextHome]_vars

\* the pantry screen: items are added and their quantities stepped while the
\* backend answers each request at any later moment
NextPantry ==
  \/ LoadUserGetToken
  \/ LoadUserGetUser
  \/ LoadItems
  \/ \E type \in QuantityTypes, text \in Texts : HandleAddItem(type, text)
  \/ \E i \in 1..MaxItems, delta \in {-1, 1} : HandleUpdateQuantity(i, delta)
  \/ \E i \in 1..(MaxItems + MaxTaps) : AnswerPost(i)
  \/ \E i \in 1..(MaxItems + MaxTaps) : AnswerGet(i)
  \/ \E i \in 1..(MaxItems + MaxTaps) : AnswerPut(i)

SpecPantry == Init /\ [][NextPantry]_vars

\* the lifecycle on a device whose store holds `token` and `user` together or
\* neither of them when the process starts
InitPaired == Init /\ (Present(store, "token") <=> Present(store, "user"))

SpecPaired == InitPaired /\ [][Next]_vars

\* the marketplace screen: the search text changes, the debounce timer fires
\* and the backend answers each list request at any later moment
NextMarket ==
  \/ LoadUserGetToken
  \/ LoadUserGetUser
  \/ MarketMount
  \/ \E q \in Queries : ChangeText(q)
  \/ TimerFires
  \/ \E i \in 1..(MaxEdits + 2) : AnswerList(i)

SpecMarket == Init /\ [][NextMarket]_vars

TypeOK ==
  /\ route \in Routes
  /\ now \in 0..MaxClock
  /\ Len(sent) <= MaxOps
  /\ Len(items) <= MaxItems /\ Len(kitchen) <= MaxItems
  /\ Len(taps.deltas) <= MaxTaps /\ taps.acked <= Len(taps.deltas)
  /\ searchQuery \in Queries
  /\ mounted \in BOOLEAN /\ failed \in BOOLEAN
  /\ edits \in 0..MaxEdits
  /\ past.logout \in 0..MaxOps /\ past.entered \subseteq Procs
  /\ store \in StoredStates
  /\ user \in Profiles \cup {Null}
  /\ loading \in BOOLEAN
  /\ nOps \in 0..MaxOps
  /\ load.pc \in {"get_token", "get_user", "done"}
  /\ \A t \in Procs : tasks[t].pc \in
       {"idle", "hook_get_token", "in_flight", "hook_rm_token", "hook_rm_user",
        "set_token", "set_user", "multi_remove"}

(* ------------------------------ claims -------------------------------- *)

\* the step in which the call in slot t settles
Settles(t) == tasks[t].pc # "idle" /\ tasks'[t] = Idle /\ ~loading'

\* the step in which the request interceptor of slot t hands the request to the network
Transmits(t) == tasks[t].pc = "hook_get_token" /\ tasks'[t].pc = "in_flight"

Credentials == {"token", "user", "guest_session_id"}

\* both keys stored and the profile parseable
Rehydratable(s) ==
  Present(s, "token") /\ Present(s, "user") /\ JSONparse(s["user"]).ok

\* C1: every transmitted request carries Authorization = 'Bearer <token>' with
\* the token the store holds when the request interceptor reads it, and no
\* Authorization header when the store holds none; the header of each request
\* comes from the store as it is at that request, never from an earlier one.
C1_TokenAttachment ==
  [][\A t \in Procs : Transmits(t) =>
       IF Present(store, "token")
       THEN tasks'[t].headers = WithAuthorization("Bearer " \o store["token"])
       ELSE tasks'[t].headers = NoHeaders]_vars

\* the second call is a request on the network with the stored token, while
\* the first call, a login, is about to persist another one
C1_Witness ==
  /\ nOps = 2
  /\ tasks[1].kind = "login" /\ tasks[1].pc = "set_token"
  /\ tasks[2].pc = "in_flight"
  /\ Present(store, "token") /\ store["token"] # tasks[1].tok
  /\ tasks[2].headers = WithAuthorization("Bearer " \o store["token"])

\* C2: when the response interceptor has finished with a 401 response, on any
\* endpoint and under any interleaving, `token` and `user` are both absent
\* from the store.
C2_InvalidationOn401 ==
  [][\A t \in Procs :
       (tasks[t].pc \in {"hook_rm_token", "hook_rm_user"} /\ Settles(t)) =>
         (~Present(store', "token") /\ ~Present(store', "user"))]_vars

ExpectedMessage(kind, err) ==
  IF err.response /\ "detail" \in DOMAIN err.data
  THEN err.data["detail"]
  ELSE IF kind = "login" THEN "Login failed" ELSE "Signup failed"

\* C4: a failing login or signup rejects with exactly the `detail` of the
\* response body when the response has one, and with the fallback string otherwise.
C4_FailureMessage ==
  [][\A t \in Procs :
       (tasks[t].kind \in {"login", "signup"} /\ Settles(t) /\ outcome'.result = "rejected") =>
         outcome'.msg = ExpectedMessage(tasks[t].kind,
                          IF tasks[t].pc \in {"hook_rm_token", "hook_rm_user"}
                          THEN tasks[t].err ELSE outcome'.err)]_vars

\* C5: no step of a login or signup call other than the one in which it
\* resolves changes Session, so a call that fails leaves Session as it was.
C5_FailureKeepsSession ==
  [][\A t \in Procs :
       (/\ tasks[t].kind \in {"login", "signup"}
        /\ tasks'[t] # tasks[t]
        /\ ~loading'
        /\ ~(Settles(t) /\ outcome'.result = "resolved")) => user' = user]_vars

\* the only call so far, a login, was rejected with a storage error, a token
\* is stored without a profile, and nobody is logged in
C5_Witness ==
  /\ outcome.kind = "login" /\ outcome.result = "rejected" /\ outcome.err = StorageErr
  /\ nOps = 1
  /\ Present(store, "token") /\ ~Present(store, "user")
  /\ user = Null

\* the step in which loadUser finishes
LoadFinishes == load.pc # "done" /\ load'.pc = "done"

\* C6 as stated: with `token` and a parseable `user` in the store, startup ends
\* authenticated with Session equal to the parsed profile.
C6_RehydrationAsStated ==
  [][(LoadFinishes /\ Rehydratable(store)) =>
       (user' = JSONparse(store["user"]).value /\ user' # Null)]_vars

\* C6 amended: with `token` and a parseable `user` in the store and both store
\* reads completing, startup ends authenticated with Session equal to the parsed
\* profile; no request is transmitted while loading.
C6_Rehydration ==
  /\ [][(LoadFinishes /\ Rehydratable(store) /\ outcome'.err = NoErr) =>
          (/\ user' = JSONparse(store["user"]).value
           /\ user' # Null
           /\ loading' = FALSE)]_vars
  /\ [][loading => \A t \in Procs : ~Transmits(t)]_vars
  /\ [](loading => \A t \in Procs : tasks[t].pc = "idle")

\* startup has ended authenticated from the stored profile
C6_Witness ==
  /\ load.pc = "done" /\ outcome = Loaded(NoErr) /\ ~loading
  /\ nOps = 0
  /\ user # Null /\ Rehydratable(store) /\ user = JSONparse(store["user"]).value

\* C7: startup always finishes with loading = FALSE, and with Session null
\* whenever `token` is absent, `user` is absent, `user` does not parse or a
\* store read fails; loading never stays true.
C7_StartupFallsBackToAnonymous ==
  /\ [][LoadFinishes =>
          (/\ loading' = FALSE
           /\ (~Rehydratable(store) \/ outcome'.err # NoErr) => user' = Null)]_vars
  /\ [](load.pc = "done" => ~loading)
  /\ (loading ~> ~loading)

\* startup has ended anonymous after a failed read or parse
C7_Witness ==
  /\ load.pc = "done" /\ outcome \in {Loaded(StorageErr), Loaded(ParseErr)}
  /\ ~loading /\ user = Null
  /\ Present(store, "token") /\ Present(store, "user")

\* the step in which the logout call in slot t settles
LogoutSettles(t) == tasks[t].kind = "logout" /\ Settles(t)

\* C8 as stated: a logout called with Session null leaves Session null and
\* leaves the three keys absent.
C8_IdempotentAsStated ==
  [][\A t \in Procs : (LogoutSettles(t) /\ user = Null) =>
       (user' = Null /\ \A k \in Credentials : ~Present(store', k))]_vars

\* C8 amended: a logout called with Session null leaves Session null; it
\* leaves the three keys absent when the removal does not fail and leaves the
\* store as it was when it fails; a logout in the state a completed removal
\* produced changes neither the store nor Session.
C8_Idempotent ==
  [][\A t \in Procs : (LogoutSettles(t) /\ user = Null) =>
       /\ user' = Null
       /\ outcome'.err = NoErr => \A k \in Credentials : ~Present(store', k)
       /\ outcome'.err # NoErr => store' = store
       /\ (\A k \in Credentials : ~Present(store, k)) => store' = store]_vars

\* the only call so far was a logout, called with nobody logged in (the store
\* holds a token without a profile, so startup did not rehydrate); its removal
\* failed and the store is as it was
C8_Witness ==
  /\ outcome.kind = "logout" /\ outcome.err = StorageErr
  /\ user = Null /\ nOps = 1
  /\ Present(store, "token") /\ ~Present(store, "user")

\* C9: logout always ends with Session null and resolves, also when the
\* store removal fails.
C9_LogoutClearsSession ==
  [][\A t \in Procs : LogoutSettles(t) =>
       (user' = Null /\ outcome'.kind = "logout" /\ outcome'.result = "resolved")]_vars

\* a logout of a logged-in user whose removal failed has resolved with Session
\* null and both keys still stored
C9_Witness ==
  /\ outcome.kind = "logout" /\ outcome.result = "resolved" /\ outcome.err = StorageErr
  /\ user = Null
  /\ Rehydratable(store)

\* C10: a logout from the authenticated state that completes without a storage
\* failure leaves the three keys absent; from then on `token` stays absent
\* until a login or signup persists one, and every request whose interceptor
\* finds it absent is transmitted without an Authorization header.
C10_NoTokenAfterLogout ==
  /\ [][\A t \in Procs : (LogoutSettles(t) /\ user # Null /\ outcome'.err = NoErr) =>
          \A k \in Credentials : ~Present(store', k)]_vars
  /\ [][(~Present(store, "token") /\ Present(store', "token")) =>
          \E t \in Procs : /\ tasks[t].kind \in {"login", "signup"}
                           /\ tasks[t].pc = "set_token"
                           /\ store'["token"] = tasks[t].tok]_vars
  /\ [][\A t \in Procs : (Transmits(t) /\ ~Present(store, "token")) =>
          "Authorization" \notin DOMAIN tasks'[t].headers]_vars

\* a logout has just completed with the three keys removed while a request
\* issued meanwhile waits for its interceptor to read the token
C10_Witness ==
  \E t \in Procs :
    /\ outcome.kind = "logout" /\ outcome.err = NoErr
    /\ user = Null
    /\ tasks[t].kind = "request" /\ tasks[t].pc = "hook_get_token"
    /\ \A k \in Credentials : ~Present(store, k)

\* the value stored under k as a sequence: empty when the key is absent
Entry(s, k) == IF Present(s, k) THEN <<s[k]>> ELSE <<>>

\* a step of the pending call in slot t, of the given kind, that is not taken
\* over by a restart
StepOf(t, kind) == tasks[t].kind = kind /\ tasks'[t] # tasks[t] /\ ~loading'

\* C11 as stated: no step of a refresh called with an authenticated Session,
\* other than the one in which it succeeds, changes Session or the stored
\* `user`, whatever the failure (a 401 included).
C11_RefreshFailureAsStated ==
  [][\A t \in Procs :
       (StepOf(t, "refresh") /\ user # Null /\ ~(Settles(t) /\ outcome'.err = NoErr)) =>
         (user' = user /\ Entry(store', "user") = Entry(store, "user"))]_vars

\* C11 amended: such a step never changes Session, and it leaves the stored
\* `user` as it was unless the failure is a 401, after which the response
\* interceptor may remove `user` (and never writes it).
C11_RefreshFailure ==
  [][\A t \in Procs :
       (StepOf(t, "refresh") /\ user # Null /\ ~(Settles(t) /\ outcome'.err = NoErr)) =>
         /\ user' = user
         /\ tasks[t].pc # "hook_rm_user" => Entry(store', "user") = Entry(store, "user")
         /\ tasks[t].pc = "hook_rm_user" =>
              /\ tasks[t].err.status = 401
              /\ Entry(store', "user") \in {Entry(store, "user"), <<>>}]_vars

\* a refresh of a logged-in user was answered with a failure that is not a
\* 401; Session and the stored profile are still there
C11_Witness ==
  /\ outcome.kind = "refresh" /\ outcome.err.response /\ outcome.err.status = 403
  /\ user # Null
  /\ Present(store, "user") /\ store["user"] = JSONstringify(user)

\* the positions a call that uses api goes through, in order; a call is at
\* "in_flight" from the transmission of its one request to the answer
Rank(pc) ==
  IF pc = "idle" THEN 0
  ELSE IF pc = "hook_get_token" THEN 1
  ELSE IF pc = "in_flight" THEN 2
  ELSE IF pc \in {"hook_rm_token", "set_token"} THEN 3
  ELSE IF pc \in {"hook_rm_user", "set_user"} THEN 4
  ELSE 5

\* the call in slot t never goes back to an earlier position while it is
\* pending, so it is transmitted at most once
NoRetransmission(t) ==
  (tasks[t].pc # "idle" /\ tasks'[t].pc # "idle") => Rank(tasks'[t].pc) >= Rank(tasks[t].pc)

\* C12: a refresh is transmitted once, as GET /auth/me; when it succeeds the
\* stored `user` is the returned profile and Session is that same profile; no
\* step of a refresh that was not answered 401 changes the stored `token`.
C12_RefreshSuccess ==
  [][\A t \in Procs :
       /\ (tasks'[t].kind = "refresh" /\ Transmits(t)) =>
            (tasks'[t].method = "GET" /\ tasks'[t].endpoint = "/auth/me")
       /\ tasks[t].kind = "refresh" => NoRetransmission(t)
       /\ (StepOf(t, "refresh") /\ Settles(t) /\ outcome'.err = NoErr) =>
            /\ tasks[t].pc = "set_user"
            /\ Entry(store', "user") = <<JSONstringify(tasks[t].usr)>>
            /\ user' = tasks[t].usr
       /\ (StepOf(t, "refresh") /\ tasks[t].pc \notin {"hook_rm_token", "hook_rm_user"}) =>
            Entry(store', "token") = Entry(store, "token")]_vars

\* a refresh has succeeded for a logged-in user: the stored profile and
\* Session are the same profile and the token is still stored
C12_Witness ==
  /\ outcome.kind = "refresh" /\ outcome.err = NoErr
  /\ user # Null /\ Entry(store, "user") = <<JSONstringify(user)>>
  /\ Present(store, "token")

\* the call in slot t was answered 401 and is in the response interceptor
Answered401(t) == tasks[t].err.response /\ tasks[t].err.status = 401

\* C13: when the caller of a request that was answered 401 receives the
\* rejection, the removal of `token` and `user` has completed: the store it
\* reads then holds neither key.
C13_ClearedBeforeRejection ==
  [][\A t \in Procs : (Answered401(t) /\ Settles(t)) =>
       (outcome'.kind = tasks[t].kind /\ \A k \in {"token", "user"} : ~Present(store', k))]_vars

\* C14: the failure delivered to the caller of a request answered 401 is
\* that response failure itself, with its status and payload; the call is not
\* transmitted again, and it does not end as a success or with another error.
C14_OriginalFailureDelivered ==
  [][\A t \in Procs : Answered401(t) =>
       /\ NoRetransmission(t)
       /\ Settles(t) => outcome'.err = tasks[t].err]_vars

\* C15: the request interceptor and the response interceptor leave the store
\* as it is for every answer that is not a 401; only a call answered 401 gets
\* into the removals, and these leave every key but `token` and `user` alone
\* and write nothing.
C15_StoreMutatedOnlyOn401 ==
  [][\A t \in Procs :
       /\ (tasks[t].pc \in {"hook_get_token", "in_flight"} /\ tasks'[t] # tasks[t]) =>
            store' = store
       /\ tasks'[t].pc \in {"hook_rm_token", "hook_rm_user"} =>
            (tasks'[t].err.response /\ tasks'[t].err.status = 401)
       /\ (tasks[t].pc \in {"hook_rm_token", "hook_rm_user"} /\ tasks'[t] # tasks[t]) =>
            /\ \A k \in Keys \ {"token", "user"} : Entry(store', k) = Entry(store, k)
            /\ \A k \in {"token", "user"} : Entry(store', k) \in {Entry(store, k), <<>>}]_vars

\* a screen's request was answered 403 with the three keys stored, and they
\* are all still stored
C15_Witness ==
  /\ outcome.kind = "request" /\ outcome.err.response /\ outcome.err.status = 403
  /\ \A k \in Keys : Present(store, k)

\* C16: no step of the 401 handling changes Session; Session changes only
\* in the step in which a login, signup or refresh persists its profile, in
\* the step in which a logout ends, at a restart and in the startup that
\* follows it.
C16_SessionSurvives401 ==
  [][/\ \A t \in Procs :
          (tasks[t].pc \in {"in_flight", "hook_rm_token", "hook_rm_user"}
             /\ tasks'[t] # tasks[t] /\ ~loading') => user' = user
     /\ user' # user =>
          \/ loading
          \/ loading'
          \/ \E t \in Procs :
               /\ Settles(t)
               /\ \/ tasks[t].kind \in {"login", "signup", "refresh"} /\ tasks[t].pc = "set_user"
                  \/ tasks[t].kind = "logout"]_vars

\* a logged-in user's request was answered 401: `token` and `user` are gone
\* from the store and Session is still the profile
C16_Witness ==
  /\ outcome.err.response /\ outcome.err.status = 401
  /\ user # Null
  /\ ~Present(store, "token") /\ ~Present(store, "user")

\* the store holds neither credential key
Cleared(s) == ~Present(s, "token") /\ ~Present(s, "user")

\* C17: with the store cleared by a 401 and Session still authenticated, the
\* next refresh ends with Session null (its request carries no token and is
\* refused), and so does the next application start.
C17_SessionNullAfterNextRefresh ==
  /\ [][\A t \in Procs :
          (/\ StepOf(t, "refresh") /\ Settles(t)
           /\ Cleared(store) /\ user # Null
           /\ outcome'.err.response) => user' = Null]_vars
  /\ [][(LoadFinishes /\ Cleared(store)) => user' = Null]_vars
  /\ [](loading /\ Cleared(store) => user = Null)

\* the endpoint the claim expects a login or signup call to post to
ExpectedEndpoint(task) ==
  IF task.kind = "signup" THEN "/auth/signup"
  ELSE IF task.staff THEN "/auth/staff-login" ELSE "/auth/login"

\* what is transmitted for a login or signup call is a POST to the expected
\* endpoint, and it is transmitted at most once
OnePostAtMost(t) ==
  /\ (tasks'[t].kind \in {"login", "signup"} /\ Transmits(t)) =>
       /\ tasks'[t].method = "POST"
       /\ tasks'[t].staff = tasks[t].staff
       /\ tasks'[t].endpoint = ExpectedEndpoint(tasks'[t])
  /\ tasks[t].kind \in {"login", "signup"} => NoRetransmission(t)

\* C18 as stated: each login transmits exactly one POST, to /auth/staff-login
\* when staffFlag is true and to /auth/login otherwise, each signup exactly one
\* POST to /auth/signup, and nothing is transmitted again: a call that ends
\* has transmitted its POST.
C18_OnePostAsStated ==
  [][\A t \in Procs :
       /\ OnePostAtMost(t)
       /\ (tasks[t].kind \in {"login", "signup"} /\ Settles(t)) =>
            tasks[t].pc # "hook_get_token"]_vars

\* C18 amended: as stated, except that a call whose request interceptor
\* fails to read the token transmits nothing and is rejected.
C18_OnePost ==
  [][\A t \in Procs :
       /\ OnePostAtMost(t)
       /\ (tasks[t].kind \in {"login", "signup"} /\ Settles(t) /\ tasks[t].pc = "hook_get_token") =>
            (outcome'.result = "rejected" /\ outcome'.err = StorageErr)]_vars

\* a staff login is on the network as a POST to the staff endpoint
C18_Witness ==
  \E t \in Procs :
    /\ tasks[t].kind = "login" /\ tasks[t].staff /\ tasks[t].pc = "in_flight"
    /\ tasks[t].method = "POST" /\ tasks[t].endpoint = "/auth/staff-login"

\* the step in which the login in slot t persists its token
PersistsToken(t) ==
  tasks[t].kind = "login" /\ tasks[t].pc = "set_token" /\ tasks'[t].pc = "set_user"

\* C19: a pending login is never held up by another one: whatever the other
\* calls are doing, its next step can be taken, and a step of one call leaves
\* the other calls as they are; the step in which a login persists its token
\* leaves that token in the store, and no other step of a login changes the
\* stored token unless the login was answered 401, so with two logins the
\* stored token is the one of the login that persisted last.
C19_ConcurrentLogins ==
  /\ [](\A t \in Procs : tasks[t].kind = "login" =>
          /\ tasks[t].pc = "hook_get_token" => ENABLED RequestHook(t)
          /\ tasks[t].pc = "in_flight" => ENABLED RespondSuccess(t)
          /\ tasks[t].pc = "set_token" => ENABLED PersistToken(t)
          /\ tasks[t].pc = "set_user" => ENABLED PersistUser(t))
  /\ [][\A t \in Procs : StepOf(t, "login") =>
          /\ \A u \in Procs \ {t} : tasks'[u] = tasks[u]
          /\ PersistsToken(t) => Entry(store', "token") = <<tasks[t].tok>>
          /\ (~PersistsToken(t) /\ ~Answered401(t)) =>
               Entry(store', "token") = Entry(store, "token")]_vars

\* two logins are pending together, both have persisted their tokens, for
\* different identities, and the stored token is the one of the login that
\* started first: it persisted last
C19_Witness ==
  /\ tasks[1].kind = "login" /\ tasks[1].pc = "set_user"
  /\ tasks[2].kind = "login" /\ tasks[2].pc = "set_user"
  /\ tasks[1].tok # tasks[2].tok
  /\ Entry(store, "token") = <<tasks[1].tok>>

\* loading has finished and nobody is logged in
Guest == ~loading /\ user = Null

\* C20: a guest who has reached the home screen is shown the home screen: the
\* layout of the tabs renders its screens and does not send the guest away.
C20_GuestStaysOnHome ==
  (Guest /\ route = "/(tabs)/home") => Rendered(route, user, loading) = Screens

\* C21: the guest session identifier is generated once and kept in the store
\* under guest_session_id: a recipe-generation request sent while Session is
\* null carries the stored identifier, the same one as the previous request of
\* the guest
C21_GuestSessionIdPersisted ==
  [][\A t \in Procs :
       (HandleGenerateRecipe(t) /\ user = Null) =>
         /\ Present(store', "guest_session_id")
         /\ sent'[Len(sent')] = store'["guest_session_id"]
         /\ (sent # <<>> /\ sent[Len(sent)] \in GuestIds) =>
              sent'[Len(sent')] = sent[Len(sent)]]_vars

\* a step of the router that shows route r
Goes(r) == route' # route /\ route' = r

Destination(u) ==
  IF u.role \in {"admin", "moderator"} THEN "/(staff)/moderation" ELSE "/(tabs)/home"

SignedIn == ~loading /\ user # Null

NonNegative(q) == q.kind = "number" /\ q.v >= 0
IsInteger(q) == q.kind = "number" /\ q.v % Scale = 0

\* C24: every quantity sent in POST /pantry and in PUT /pantry/{id} is
\* non-negative, and an integer for an item of type 'number'; an item of type
\* 'none' is added with quantity 0 and no PUT is sent for it
C24_QuantitiesSent ==
  \A i \in 1..Len(calls) :
    calls[i].op \in {"POST", "PUT"} =>
      /\ NonNegative(calls[i].quantity)
      /\ calls[i].quantity_type = "number" => IsInteger(calls[i].quantity)
      /\ calls[i].quantity_type = "none" => (calls[i].op = "POST" /\ calls[i].quantity = Num(0))

\* C25: whenever no login, signup, logout, refresh or response-phase hook is in
\* flight, `token` is stored if and only if `user` is stored, a store write or
\* removal failing part-way through included
C25_TokenIffUser ==
  (~loading /\ Quiet) => (Present(store, "token") <=> Present(store, "user"))

\* a logout has cleared the store and no login or signup started after it has
\* resolved since
LoggedOut == past.logout # 0 /\ \A t \in past.entered : t < past.logout

\* C26: after a logout has completed, Session stays null and `user` stays
\* absent from the store until a later login or signup succeeds, whatever the
\* responses that arrive for requests sent before the logout
C26_LoggedOutStaysOut ==
  LoggedOut => (user = Null /\ ~Present(store, "user"))

\* the stored token, the stored profile and Session are those of one response
OneIdentity(s, u) ==
  \E i \in Ids :
    /\ Present(s, "token") /\ s["token"] = TokenOf(i)
    /\ Present(s, "user") /\ s["user"] = JSONstringify(Profile(i))
    /\ u = Profile(i)

\* C27: when the second of two login or signup calls that both succeed has
\* resolved, and no call is pending, the stored `token`, the stored `user` and
\* Session come from the same response
C27_OneIdentityAfterLogins ==
  [][\A t \in Procs :
       (/\ tasks[t].kind \in {"login", "signup"} /\ Settles(t)
        /\ t \in past'.entered
        /\ past.entered \ {t} # {}
        /\ Quiet') => OneIdentity(store', user')]_vars

\* the credentials of a completed login or signup are in place: the stored
\* token, the stored profile and Session are those of one account
SignedInAs(i) ==
  /\ i \in Ids
  /\ Present(store, "token") /\ store["token"] = TokenOf(i)
  /\ Present(store, "user") /\ store["user"] = JSONstringify(Profile(i))
  /\ user = Profile(i)

\* the request of call t was sent with the token of account i
SentAs(t, i) == tasks[t].headers = WithAuthorization("Bearer " \o TokenOf(i))

\* C28: a 401 for a request sent before a later login or signup stored its
\* credentials removes neither `token` nor `user` of that login: the response
\* interceptor removes only the credentials the rejected request carried
C28_StaleRejectionSparesLogin ==
  [][\A t \in Procs, i \in Ids :
       (/\ tasks[t].pc \in {"hook_rm_token", "hook_rm_user"}
        /\ tasks'[t] # tasks[t]
        /\ Answered401(t)
        /\ past.entered # {} /\ \A s \in past.entered : s > t
        /\ SignedInAs(i)
        /\ ~SentAs(t, i)) => store' = store]_vars

\* the quantity displayed after the steps ds from quantity q, each step taken
\* from the quantity the step before it left
RECURSIVE Stepped(_, _, _)
Stepped(q, type, ds) ==
  IF ds = <<>> THEN q ELSE Stepped(NewQuantity(q, type, Head(ds)), type, Tail(ds))

\* C29: when every quantity step tapped on an item has been acknowledged, the
\* quantity displayed is the quantity before the first step plus the deltas,
\* kept at 0 or above, also when a step was tapped before the response to an
\* earlier one
C29_StepsAddUp ==
  (/\ taps.deltas # <<>>
   /\ taps.acked = Len(taps.deltas)
   /\ calls = <<>>
   /\ items # <<>>) =>
     items[1].quantity = Stepped(taps.origin[1], items[1].quantity_type, taps.deltas)

\* C30: once the search text has stopped changing and every list request has
\* been answered, the list displayed is the result of the request for the
\* latest search text, the unfiltered load for a blank text, whatever the order
\* in which the responses arrived; and a request is sent only for the text that
\* is current when the debounce timer fires
C30_LatestSearchShown ==
  /\ []((mounted /\ timer = <<>> /\ fetches = <<>> /\ ~failed) =>
          paidRecipes = PaidOf(ListRequest(searchQuery)))
  /\ [][TimerFires => (timer[1] = searchQuery /\ fetches'[Len(fetches')] = ListRequest(searchQuery))]_vars

====
